---- MODULE Spec2Model ----
(***************************************************************************)
(* GoTree (src/main.go): a repository of refs (refs/<name>.json), one      *)
(* layer directory per ref (layers/<layerID>), overlay mounts of a ref on  *)
(* a mount point, and the mount-info files (mounts/<base>.json).           *)
(*                                                                         *)
(* Strings the code takes apart (ref names, mount points) are sequences of *)
(* one-character strings, so that strings.ContainsAny, strings.Contains    *)
(* and filepath.Base are computed as the code computes them.               *)
(*                                                                         *)
(* Every command is one synchronous call.  The two loops of the code, the  *)
(* parent walk of buildLowerDirs and the retry loop of unmountWithOptions, *)
(* take one step per iteration; while a call is running no other call      *)
(* starts (serialized access).  `call` holds the running call's locals and,*)
(* once it has returned, its arguments and result.                         *)
(*                                                                         *)
(* Left to the environment: whether the overlay mount, the bind mount, the *)
(* unmount, the detached unmount, the removal of a layer or work directory *)
(* and the process discovery succeed.  Not modelled: CreatedAt, failures   *)
(* of os.MkdirAll / os.WriteFile / os.ReadFile on an intact repository,    *)
(* the source and option columns of /proc/mounts.                          *)
(***************************************************************************)
EXTENDS Integers, Sequences, FiniteSets, TLC

VARIABLES refs, layers, work, clock, procMounts, mountFiles, call

vars == <<refs, layers, work, clock, procMounts, mountFiles, call>>

(* ------------------------------ bounds --------------------------------- *)

\* Layer identifiers the clock hands out before the model stops creating.
MaxLayers == 3

\* Iterations of the buildLowerDirs loop the model follows.
MaxWalk == 4

(* ------------------------------ inputs --------------------------------- *)

EmptyString == << >>

ValidNames == { <<"a">>, <<"b">>, <<"c">> }

\* The empty name, and a name with each of the characters validateRefName refuses
BadNames ==
  { EmptyString }
  \cup { <<"a", c>> : c \in { "/", "\\", ":", "*", "?", "\"", "<", ">", "|" } }

RefNames == ValidNames \cup BadNames

\* The parents a ref is created from: a valid name or the empty string
Parents == ValidNames \cup { EmptyString }

\* The names used where refs are mounted
MountNames == { <<"a">>, <<"b">> }

\* The name used where the retry loop of unmount is followed in full
UnmountNames == { <<"a">> }

\* /m/a, /m/ab (contains /m/a as a substring), /x/a (same base name as /m/a)
\* and a (relative to the working directory /m: /m/a again)
MountPoints ==
  { <<"/", "m", "/", "a">>, <<"/", "m", "/", "a", "b">>, <<"/", "x", "/", "a">>,
    <<"a">> }

\* /m/a and /x/a
SameBasePoints == { <<"/", "m", "/", "a">>, <<"/", "x", "/", "a">> }

\* Two mount points with different base names, /m/a and /m/ab
RacePoints == { <<"/", "m", "/", "a">>, <<"/", "m", "/", "a", "b">> }

\* The one mount point of the specification of chains
ChainPoints == { <<"/", "m", "/", "a">> }

MetaKeys == { "k1" }

MetaValues == { "v1" }

Messages == { "", "m1" }

\* Two keys and two values, for the calls that tell keys apart
TwoKeys == { "k1", "k2" }

TwoValues == { "v1", "v2" }

(* --------------------------- string helpers ---------------------------- *)

\* strings.ContainsAny(name, chars)
ContainsAny(s, chars) == \E i \in 1..Len(s) : s[i] \in chars

\* strings.Contains(text, sub)
Contains(text, sub) ==
  \E i \in 0..(Len(text) - Len(sub)) : SubSeq(text, i + 1, i + Len(sub)) = sub

\* filepath.Base of a clean path: what follows the last separator
LastSlash(p) ==
  IF \E i \in 1..Len(p) : p[i] = "/"
  THEN CHOOSE i \in 1..Len(p) : p[i] = "/" /\ \A j \in (i + 1)..Len(p) : p[j] # "/"
  ELSE 0

Base(p) ==
  IF p = EmptyString THEN <<".">>
  ELSE IF LastSlash(p) = Len(p) THEN <<"/">>
  ELSE SubSeq(p, LastSlash(p) + 1, Len(p))

\* The working directory of the process, for filepath.Abs
Cwd == <<"/", "m">>

\* filepath.Abs of a clean path: an absolute path as it is, a relative one
\* joined to the working directory
Abs(p) == IF Len(p) > 0 /\ p[1] = "/" THEN p ELSE Cwd \o <<"/">> \o p

(* ------------------------------- helpers ------------------------------- *)

ForbiddenChars == { "/", "\\", ":", "*", "?", "\"", "<", ">", "|" }

\* validateRefName refusing the path separator only
validateRefNameSeparatorOnly(name) ==
  IF name = EmptyString THEN "InvalidName"
  ELSE IF ContainsAny(name, { "/" }) THEN "InvalidName"
  ELSE "ok"


validateRefName(name) ==
  IF name = EmptyString THEN "InvalidName"
  ELSE IF ContainsAny(name, ForbiddenChars) THEN "InvalidName"
  ELSE "ok"

\* time.Now().UnixNano() read by generateLayerID; two calls never share a nanosecond
generateLayerID == clock

NoRef == [parent |-> EmptyString, layerID |-> 0, metadata |-> << >>]

\* getRef: err # nil exactly when refs/<name>.json is missing
hasRef(store, name) == name \in DOMAIN store

getRef(store, name) == IF hasRef(store, name) THEN store[name] ELSE NoRef

\* saveRef when a child's metadata map is the parent's map itself, so that a
\* write through one ref shows in the other
saveRefSharedMetadata(store, name, ref) ==
  [n \in DOMAIN store \cup {name} |->
     IF n = name THEN ref
     ELSE IF store[n].parent = name \/ ref.parent = n
          THEN [store[n] EXCEPT !.metadata = ref.metadata]
          ELSE store[n]]


\* saveRef: os.WriteFile(refs/<name>.json) creates or overwrites the file
saveRef(store, name, ref) ==
  [n \in DOMAIN store \cup {name} |-> IF n = name THEN ref ELSE store[n]]

removeKey(f, k) == [x \in DOMAIN f \ {k} |-> f[x]]

\* A map assignment that starts from an empty map
mapSetAlone(m, k, v) == [x \in {k} |-> v]

\* map assignment m[k] = v and delete(m, k)
mapSet(m, k, v) == [x \in DOMAIN m \cup {k} |-> IF x = k THEN v ELSE m[x]]

mapDelete(m, k) == [x \in DOMAIN m \ {k} |-> m[x]]

HasChildren(store, refName) == \E n \in DOMAIN store : store[n].parent = refName

IsMountedRef(files, refName) == \E k \in DOMAIN files : files[k].ref = refName

\* isMounted as it answers when /proc/mounts cannot be read
isMountedUnreadable(table, mountPoint) == FALSE

\* isMounted: strings.Contains(<text of /proc/mounts>, absPath)
isMounted(table, mountPoint) ==
  \E q \in DOMAIN table : Contains(q, Abs(mountPoint))

(* ------------------------------ the call ------------------------------- *)

\* No second invocation. `during` records what the call's result was when the
\* second invocation returned
NoPeer ==
  [op |-> "none", pc |-> "done", name |-> EmptyString, ref |-> NoRef, res |-> "ok",
   during |-> "none"]

NoCall ==
  [op |-> "none", name |-> EmptyString, parent |-> EmptyString,
   mountPoint |-> EmptyString, force |-> FALSE, key |-> "", value |-> "",
   res |-> "ok",
   ref |-> NoRef, current |-> NoRef, dirs |-> << >>, i |-> 0, log |-> << >>,
   peer |-> NoPeer]

Idle == call.res # "running"

Returned(op, res) == [NoCall EXCEPT !.op = op, !.res = res]

Init ==
  /\ refs = << >>
  /\ layers = {}
  /\ work = {}
  /\ clock = 1
  /\ procMounts = << >>
  /\ mountFiles = << >>
  /\ call = NoCall

(* ------------------------------ creation ------------------------------- *)

CreateEmptyRef(name) ==
  /\ Idle
  /\ IF validateRefName(name) # "ok"
     THEN /\ call' = [Returned("CreateEmptyRef", "InvalidName") EXCEPT !.name = name]
          /\ UNCHANGED <<refs, layers, clock>>
     ELSE /\ clock <= MaxLayers
          /\ layers' = layers \cup {generateLayerID}
          /\ refs' = saveRef(refs, name,
                       [parent |-> EmptyString, layerID |-> generateLayerID,
                        metadata |-> << >>])
          /\ clock' = clock + 1
          /\ call' = [Returned("CreateEmptyRef", "ok") EXCEPT !.name = name]
  /\ UNCHANGED <<work, procMounts, mountFiles>>

\* CreateRefFromParent with the layer directory made before the parent is read
CreateRefFromParentLayerFirst(name, parent) ==
  /\ Idle
  /\ IF validateRefName(name) # "ok"
     THEN /\ call' = [Returned("CreateRefFromParent", "InvalidName")
                        EXCEPT !.name = name, !.parent = parent]
          /\ UNCHANGED <<refs, layers, clock>>
     ELSE /\ clock <= MaxLayers
          /\ layers' = layers \cup {generateLayerID}
          /\ clock' = clock + 1
          /\ IF ~hasRef(refs, parent)
             THEN /\ call' = [Returned("CreateRefFromParent", "ParentNotFound")
                                EXCEPT !.name = name, !.parent = parent]
                  /\ UNCHANGED refs
             ELSE /\ refs' = saveRef(refs, name,
                               [parent |-> parent, layerID |-> generateLayerID,
                                metadata |-> getRef(refs, parent).metadata])
                  /\ call' = [Returned("CreateRefFromParent", "ok")
                                EXCEPT !.name = name, !.parent = parent]
  /\ UNCHANGED <<work, procMounts, mountFiles>>


CreateRefFromParent(name, parent) ==
  /\ Idle
  /\ IF validateRefName(name) # "ok"
     THEN /\ call' = [Returned("CreateRefFromParent", "InvalidName")
                        EXCEPT !.name = name, !.parent = parent]
          /\ UNCHANGED <<refs, layers, clock>>
     ELSE IF ~hasRef(refs, parent)
     THEN /\ call' = [Returned("CreateRefFromParent", "ParentNotFound")
                        EXCEPT !.name = name, !.parent = parent]
          /\ UNCHANGED <<refs, layers, clock>>
     ELSE /\ clock <= MaxLayers
          /\ layers' = layers \cup {generateLayerID}
          /\ refs' = saveRef(refs, name,
                       [parent |-> parent, layerID |-> generateLayerID,
                        metadata |-> getRef(refs, parent).metadata])
          /\ clock' = clock + 1
          /\ call' = [Returned("CreateRefFromParent", "ok")
                        EXCEPT !.name = name, !.parent = parent]
  /\ UNCHANGED <<work, procMounts, mountFiles>>

\* The wall clock that time.Now reads is set back between two calls
ClockSetBack ==
  /\ Idle
  /\ \E t \in 1..(clock - 1) : clock' = t
  /\ UNCHANGED <<refs, layers, work, procMounts, mountFiles, call>>

(* ------------------------ commit and metadata -------------------------- *)

Commit(refName, message) ==
  /\ Idle
  /\ IF ~hasRef(refs, refName)
     THEN /\ call' = [Returned("Commit", "RefNotFound") EXCEPT !.name = refName]
          /\ UNCHANGED refs
     ELSE /\ refs' = saveRef(refs, refName,
                       [getRef(refs, refName) EXCEPT !.metadata =
                          IF message # "" THEN mapSet(@, "commit.message", message)
                          ELSE @])
          /\ call' = [Returned("Commit", "ok") EXCEPT !.name = refName]
  /\ UNCHANGED <<layers, work, clock, procMounts, mountFiles>>

SetMetadata(refName, key, value) ==
  /\ Idle
  /\ IF ~hasRef(refs, refName)
     THEN /\ call' = [Returned("SetMetadata", "RefNotFound")
                        EXCEPT !.name = refName, !.key = key, !.value = value]
          /\ UNCHANGED refs
     ELSE /\ refs' = saveRef(refs, refName,
                       [getRef(refs, refName) EXCEPT !.metadata = mapSet(@, key, value)])
          /\ call' = [Returned("SetMetadata", "ok")
                        EXCEPT !.name = refName, !.key = key, !.value = value]
  /\ UNCHANGED <<layers, work, clock, procMounts, mountFiles>>

\* An empty map is written as no "metadata" field and read back as nil:
\* DeleteMetadata then returns before saveRef, with the same store.
DeleteMetadata(refName, key) ==
  /\ Idle
  /\ IF ~hasRef(refs, refName)
     THEN /\ call' = [Returned("DeleteMetadata", "RefNotFound")
                        EXCEPT !.name = refName, !.key = key]
          /\ UNCHANGED refs
     ELSE /\ refs' = saveRef(refs, refName,
                       [getRef(refs, refName) EXCEPT !.metadata = mapDelete(@, key)])
          /\ call' = [Returned("DeleteMetadata", "ok")
                        EXCEPT !.name = refName, !.key = key]
  /\ UNCHANGED <<layers, work, clock, procMounts, mountFiles>>

\* GetMetadata: the value of the key, or the error it returns
GetMetadata(store, refName, key) ==
  IF ~hasRef(store, refName) THEN [err |-> "RefNotFound", value |-> ""]
  ELSE IF key \notin DOMAIN getRef(store, refName).metadata
       THEN [err |-> "KeyNotFound", value |-> ""]
  ELSE [err |-> "ok", value |-> getRef(store, refName).metadata[key]]

(* ------------------------------ deletion ------------------------------- *)

\* The guard checks without the check for children
DeleteGuardNoChildren(store, files, name, force) ==
  IF ~hasRef(store, name) THEN "RefNotFound"
  ELSE IF ~force /\ IsMountedRef(files, name) THEN "RefMounted"
  ELSE "ok"

\* The guard checks when an unforced DeleteRef makes none of them
DeleteGuardUnchecked(store, files, name, force) ==
  IF ~hasRef(store, name) THEN "RefNotFound" ELSE "ok"

\* The guard checks when the mounted check reads the mount table
DeleteGuardLiveTable(store, files, name, force) ==
  IF ~hasRef(store, name) THEN "RefNotFound"
  ELSE IF ~force /\ HasChildren(store, name) THEN "HasChildren"
  ELSE IF ~force /\ (\E p \in DOMAIN procMounts : procMounts[p] = name) THEN "RefMounted"
  ELSE "ok"


\* The guard checks of DeleteRef, in the code's order
DeleteGuard(store, files, name, force) ==
  IF ~hasRef(store, name) THEN "RefNotFound"
  ELSE IF ~force /\ HasChildren(store, name) THEN "HasChildren"
  ELSE IF ~force /\ IsMountedRef(files, name) THEN "RefMounted"
  ELSE "ok"

\* DeleteRef removing the layer directory before the ref file
DeleteRefLayerFirst(name, force, rmLayer, rmWork) ==
  /\ Idle
  /\ LET guard == DeleteGuard(refs, mountFiles, name, force)
         ref == getRef(refs, name)
     IN IF guard # "ok"
        THEN /\ call' = [Returned("DeleteRef", guard) EXCEPT !.name = name, !.force = force]
             /\ UNCHANGED <<refs, layers, work>>
        ELSE IF rmLayer
        THEN /\ layers' = layers \ {ref.layerID}
             /\ refs' = removeKey(refs, name)
             /\ work' = IF rmWork THEN work \ {ref.layerID} ELSE work
             /\ call' = [Returned("DeleteRef", "ok") EXCEPT !.name = name, !.force = force]
        ELSE /\ UNCHANGED <<refs, layers, work>>
             /\ call' = [Returned("DeleteRef", "IOError")
                           EXCEPT !.name = name, !.force = force]
  /\ UNCHANGED <<clock, procMounts, mountFiles>>


\* rmLayer, rmWork: whether os.RemoveAll of the layer / work directory succeeds
DeleteRef(name, force, rmLayer, rmWork) ==
  /\ Idle
  /\ LET guard == DeleteGuard(refs, mountFiles, name, force)
         ref == getRef(refs, name)
     IN IF guard # "ok"
        THEN /\ call' = [Returned("DeleteRef", guard) EXCEPT !.name = name, !.force = force]
             /\ UNCHANGED <<refs, layers, work>>
        ELSE /\ refs' = removeKey(refs, name)
             /\ IF rmLayer
                THEN /\ layers' = layers \ {ref.layerID}
                     /\ work' = IF rmWork THEN work \ {ref.layerID} ELSE work
                     /\ call' = [Returned("DeleteRef", "ok")
                                   EXCEPT !.name = name, !.force = force]
                ELSE /\ UNCHANGED <<layers, work>>
                     /\ call' = [Returned("DeleteRef", "IOError")
                                   EXCEPT !.name = name, !.force = force]
  /\ UNCHANGED <<clock, procMounts, mountFiles>>

(* -------------------------------- mount -------------------------------- *)

\* Mount up to the start of the buildLowerDirs loop
MountBegin(refName, mountPoint) ==
  /\ Idle
  /\ IF ~hasRef(refs, refName)
     THEN call' = [Returned("Mount", "RefNotFound")
                     EXCEPT !.name = refName, !.mountPoint = mountPoint]
     ELSE IF isMounted(procMounts, mountPoint)
     THEN call' = [Returned("Mount", "AlreadyMounted")
                     EXCEPT !.name = refName, !.mountPoint = mountPoint]
     ELSE call' = [Returned("Mount", "running")
                     EXCEPT !.name = refName, !.mountPoint = mountPoint,
                            !.ref = getRef(refs, refName),
                            !.current = getRef(refs, refName)]
  /\ UNCHANGED <<refs, layers, work, clock, procMounts, mountFiles>>

\* The loop condition when the error of getRef does not break the loop
buildLowerDirsNoBreak(store, current) == current.parent # EmptyString


\* Whether the loop of buildLowerDirs runs its body once more from `current`
buildLowerDirsContinues(store, current) ==
  current.parent # EmptyString /\ hasRef(store, current.parent)

\* One iteration of the loop of buildLowerDirs
buildLowerDirs ==
  /\ call.op = "Mount" /\ call.res = "running"
  /\ buildLowerDirsContinues(refs, call.current)
  /\ Len(call.dirs) < MaxWalk
  /\ call' = [call EXCEPT !.dirs = Append(@, getRef(refs, call.current.parent).layerID),
                          !.current = getRef(refs, call.current.parent)]
  /\ UNCHANGED <<refs, layers, work, clock, procMounts, mountFiles>>

\* The lowerdir option with the layers listed from the root to the nearest parent
lowerDirsRootFirst(dirs, upperDir) ==
  IF Len(dirs) > 0
  THEN [k \in 1..Len(dirs) |-> dirs[Len(dirs) + 1 - k]]
  ELSE <<upperDir>>


\* The lowerdir option of the overlay mount
lowerDirs(dirs, upperDir) == IF Len(dirs) > 0 THEN dirs ELSE <<upperDir>>

\* The mount-info file written before the mount calls are made
saveMountInfoFirst(files, refName, mountPoint, overlayOk, bindOk) ==
  mapSet(files, Base(mountPoint), [ref |-> refName, mountPoint |-> mountPoint])

\* The mount-info file when a file that exists is not written over
saveMountInfoKeepFirst(files, refName, mountPoint, overlayOk, bindOk) ==
  IF overlayOk /\ Base(mountPoint) \notin DOMAIN files
  THEN mapSet(files, Base(mountPoint), [ref |-> refName, mountPoint |-> mountPoint])
  ELSE files


\* The mount-info file Mount leaves, given the outcome of the two mount calls
saveMountInfo(files, refName, mountPoint, overlayOk, bindOk) ==
  IF overlayOk
  THEN mapSet(files, Base(mountPoint), [ref |-> refName, mountPoint |-> mountPoint])
  ELSE files

\* What Mount returns, given the outcome of the two mount calls
mountResult(overlayOk, bindOk) ==
  IF overlayOk \/ bindOk THEN "ok" ELSE "MountFailed"

\* Mount after the loop: the work directory, the overlay mount, the bind
\* fallback, the mount-info file
MountEnd(overlayOk, bindOk) ==
  /\ call.op = "Mount" /\ call.res = "running"
  /\ ~buildLowerDirsContinues(refs, call.current)
  /\ LET upperDir == call.ref.layerID
         lower == lowerDirs(call.dirs, upperDir)
         tried == <<[ev |-> "mount.overlay", lower |-> lower, upper |-> upperDir,
                     ok |-> overlayOk]>>
                  \o (IF overlayOk THEN << >>
                      ELSE <<[ev |-> "mount.bind", lower |-> << >>, upper |-> upperDir,
                              ok |-> bindOk]>>)
     IN /\ work' = work \cup {upperDir}
        /\ procMounts' =
             IF overlayOk \/ bindOk
             THEN mapSet(procMounts, Abs(call.mountPoint), call.name)
             ELSE procMounts
        /\ mountFiles' = saveMountInfo(mountFiles, call.name, call.mountPoint,
                                       overlayOk, bindOk)
        /\ call' = [Returned("Mount", mountResult(overlayOk, bindOk))
                      EXCEPT !.name = call.name, !.mountPoint = call.mountPoint,
                             !.dirs = call.dirs, !.log = tried]
  /\ UNCHANGED <<refs, layers, clock>>

(* ------------------------------- unmount ------------------------------- *)

\* The loop bound with the comparison i <= maxRetries
maxRetriesInclusive(force) == IF force THEN 6 ELSE 4

\* The loop bound when the force flag is not looked at
maxRetriesForced(force) == 5


maxRetries(force) == IF force THEN 5 ELSE 3

Event(ev, n) == [ev |-> ev, n |-> n]

\* unmountWithOptions up to the start of the retry loop
UnmountBegin(mountPoint, force) ==
  /\ Idle
  /\ IF ~isMounted(procMounts, mountPoint)
     THEN call' = [Returned("Unmount", "NotMounted")
                     EXCEPT !.mountPoint = mountPoint, !.force = force]
     ELSE call' = [Returned("Unmount", "running")
                     EXCEPT !.mountPoint = mountPoint, !.force = force,
                            !.log = <<Event("sync", 0)>>]
  /\ UNCHANGED <<refs, layers, work, clock, procMounts, mountFiles>>

\* The events of killProcessesUsingMount: fuser -km, then, when lsof lists
\* processes, TERM to each, a pause, KILL to each
killProcessesUsingMount(lsofFound) ==
  <<Event("fuser -km", 0)>>
  \o (IF lsofFound
      THEN <<Event("kill -TERM", 0), Event("sleep", 100), Event("kill -KILL", 0)>>
      ELSE << >>)

\* The events of one iteration when force kills before the first attempt too
beforeAttemptKillFirst(i, force, lsofFound) ==
  (IF i > 0 THEN <<Event("sleep", 100 * (i + 1)), Event("sync", 0)>> ELSE << >>)
  \o (IF force
      THEN killProcessesUsingMount(lsofFound) \o <<Event("sleep", 200)>>
      ELSE << >>)


\* The events of one iteration when the backoff is 100 ms times the loop index
beforeAttemptLoopIndex(i, force, lsofFound) ==
  (IF i > 0 THEN <<Event("sleep", 100 * i), Event("sync", 0)>> ELSE << >>)
  \o (IF force /\ i > 0
      THEN killProcessesUsingMount(lsofFound) \o <<Event("sleep", 200)>>
      ELSE << >>)


\* The events of one iteration before its unmount call
beforeAttempt(i, force, lsofFound) ==
  (IF i > 0 THEN <<Event("sleep", 100 * (i + 1)), Event("sync", 0)>> ELSE << >>)
  \o (IF force /\ i > 0
      THEN killProcessesUsingMount(lsofFound) \o <<Event("sleep", 200)>>
      ELSE << >>)

\* syscall.Unmount succeeds only on a mount point, and then only if the
\* environment lets it (the mount is not busy)
unmountOk(table, mountPoint, envOk) == Abs(mountPoint) \in DOMAIN table /\ envOk

\* The mount-info file removed whatever the unmount call returned
removeMountInfoAlways(files, mountPoint, unmounted) ==
  removeKey(files, Base(mountPoint))

\* The mount-info files after an iteration whose unmount or detach succeeded or not
removeMountInfo(files, mountPoint, unmounted) ==
  IF unmounted THEN removeKey(files, Base(mountPoint)) ELSE files

\* unmountWithOptions trying the detach unmount after every failed attempt
UnmountAttemptDetachEach(lsofFound, envOk, detachEnvOk) ==
  /\ call.op = "Unmount" /\ call.res = "running"
  /\ call.i < maxRetries(call.force)
  /\ LET i == call.i
         mp == call.mountPoint
         ok == unmountOk(procMounts, mp, envOk)
         detachOk == unmountOk(procMounts, mp, detachEnvOk)
         events == beforeAttempt(i, call.force, lsofFound)
                   \o <<Event("unmount", IF ok THEN 1 ELSE 0)>>
                   \o (IF ~ok
                       THEN <<Event("unmount.detach", IF detachOk THEN 1 ELSE 0)>>
                       ELSE << >>)
         unmounted == ok \/ detachOk
     IN /\ procMounts' = IF unmounted THEN removeKey(procMounts, Abs(mp)) ELSE procMounts
        /\ mountFiles' = removeMountInfo(mountFiles, mp, unmounted)
        /\ call' = IF unmounted
                   THEN [Returned("Unmount", "ok")
                           EXCEPT !.mountPoint = mp, !.force = call.force,
                                  !.i = i, !.log = call.log \o events]
                   ELSE [call EXCEPT !.i = i + 1, !.log = @ \o events]
  /\ UNCHANGED <<refs, layers, work, clock>>


\* One iteration of the retry loop
UnmountAttempt(lsofFound, envOk, detachEnvOk) ==
  /\ call.op = "Unmount" /\ call.res = "running"
  /\ call.i < maxRetries(call.force)
  /\ LET i == call.i
         mp == call.mountPoint
         ok == unmountOk(procMounts, mp, envOk)
         last == i = maxRetries(call.force) - 1
         detachOk == unmountOk(procMounts, mp, detachEnvOk)
         events == beforeAttempt(i, call.force, lsofFound)
                   \o <<Event("unmount", IF ok THEN 1 ELSE 0)>>
                   \o (IF ~ok /\ last
                       THEN <<Event("unmount.detach", IF detachOk THEN 1 ELSE 0)>>
                       ELSE << >>)
         unmounted == ok \/ (last /\ detachOk)
     IN /\ procMounts' = IF unmounted THEN removeKey(procMounts, Abs(mp)) ELSE procMounts
        /\ mountFiles' = removeMountInfo(mountFiles, mp, unmounted)
        /\ call' = IF unmounted
                   THEN [Returned("Unmount", "ok")
                           EXCEPT !.mountPoint = mp, !.force = call.force,
                                  !.i = i, !.log = call.log \o events]
                   ELSE [call EXCEPT !.i = i + 1, !.log = @ \o events]
  /\ UNCHANGED <<refs, layers, work, clock>>

\* The return after the loop
UnmountFail ==
  /\ call.op = "Unmount" /\ call.res = "running"
  /\ call.i = maxRetries(call.force)
  /\ call' = [call EXCEPT !.res = "UnmountFailed"]
  /\ UNCHANGED <<refs, layers, work, clock, procMounts, mountFiles>>

(* ----------------------- concurrent invocations ------------------------ *)

\* A second invocation, run by another process while the call is running:
\* `peer` holds its position and what it has read
PeerDone == call.peer.pc = "done"

\* Mount of the running call from os.MkdirAll(workDir) to the mount calls,
\* as one step of several: a mount call succeeds only on directories that
\* are there when it is made
RaceMountSyscall(overlayOk, bindOk) ==
  /\ call.op = "Mount" /\ call.res = "running" /\ call.log = << >>
  /\ ~buildLowerDirsContinues(refs, call.current)
  /\ LET upperDir == call.ref.layerID
         lower == lowerDirs(call.dirs, upperDir)
         okO == /\ overlayOk /\ upperDir \in layers
                /\ \A k \in 1..Len(lower) : lower[k] \in layers
         okB == bindOk /\ upperDir \in layers
         tried == <<[ev |-> "mount.overlay", lower |-> lower, upper |-> upperDir,
                     ok |-> okO]>>
                  \o (IF okO THEN << >>
                      ELSE <<[ev |-> "mount.bind", lower |-> << >>, upper |-> upperDir,
                              ok |-> okB]>>)
     IN /\ work' = work \cup {upperDir}
        /\ procMounts' =
             IF okO \/ okB
             THEN mapSet(procMounts, Abs(call.mountPoint), call.name)
             ELSE procMounts
        /\ call' = [call EXCEPT !.log = tried]
  /\ UNCHANGED <<refs, layers, clock, mountFiles>>

\* Mount of the running call after its mount calls: the mount-info file and
\* the return
RaceMountReturn ==
  /\ call.op = "Mount" /\ call.res = "running" /\ call.log # << >>
  /\ LET okO == call.log[1].ok
         okB == Len(call.log) = 2 /\ call.log[2].ok
     IN /\ mountFiles' = saveMountInfo(mountFiles, call.name, call.mountPoint, okO, okB)
        /\ call' = [call EXCEPT !.res = mountResult(okO, okB)]
  /\ UNCHANGED <<refs, layers, work, clock, procMounts>>

\* DeleteRef without force in the second invocation, while a Mount is
\* running: getRef and the guard checks
PeerDeleteCheck(name) ==
  /\ call.op = "Mount" /\ call.res = "running"
  /\ call.peer.op = "none"
  /\ LET guard == DeleteGuard(refs, mountFiles, name, FALSE)
     IN call' = [call EXCEPT !.peer =
                   [op |-> "DeleteRef", name |-> name, ref |-> getRef(refs, name),
                    pc |-> IF guard = "ok" THEN "removeRef" ELSE "done",
                    res |-> IF guard = "ok" THEN "running" ELSE guard,
                    during |-> call.res]]
  /\ UNCHANGED <<refs, layers, work, clock, procMounts, mountFiles>>

\* DeleteRef in the second invocation: os.Remove of the ref file
PeerDeleteRemoveRef ==
  /\ call.peer.op = "DeleteRef" /\ call.peer.pc = "removeRef"
  /\ refs' = removeKey(refs, call.peer.name)
  /\ call' = [call EXCEPT !.peer.pc = "removeLayer"]
  /\ UNCHANGED <<layers, work, clock, procMounts, mountFiles>>

\* DeleteRef in the second invocation: os.RemoveAll of the layer and of the
\* work directory, and the return
PeerDeleteRemoveLayer(rmLayer, rmWork) ==
  /\ call.peer.op = "DeleteRef" /\ call.peer.pc = "removeLayer"
  /\ IF rmLayer
     THEN /\ layers' = layers \ {call.peer.ref.layerID}
          /\ work' = IF rmWork THEN work \ {call.peer.ref.layerID} ELSE work
          /\ call' = [call EXCEPT !.peer.pc = "done", !.peer.res = "ok",
                                  !.peer.during = call.res]
     ELSE /\ UNCHANGED <<layers, work>>
          /\ call' = [call EXCEPT !.peer.pc = "done", !.peer.res = "IOError",
                                  !.peer.during = call.res]
  /\ UNCHANGED <<refs, clock, procMounts, mountFiles>>

\* The loop of buildLowerDirs run to its end, at most k iterations
RECURSIVE walkLowerDirs(_, _, _)
walkLowerDirs(store, current, k) ==
  IF k = 0 \/ ~buildLowerDirsContinues(store, current) THEN << >>
  ELSE <<getRef(store, current.parent).layerID>>
       \o walkLowerDirs(store, getRef(store, current.parent), k - 1)

\* Mount in the second invocation, on the mount point of the running Mount:
\* getRef and the isMounted check
PeerMountCheck(refName) ==
  /\ call.op = "Mount" /\ call.res = "running"
  /\ call.peer.op = "none"
  /\ LET res == IF ~hasRef(refs, refName) THEN "RefNotFound"
                ELSE IF isMounted(procMounts, call.mountPoint) THEN "AlreadyMounted"
                ELSE "running"
     IN call' = [call EXCEPT !.peer =
                   [op |-> "Mount", name |-> refName, ref |-> getRef(refs, refName),
                    pc |-> IF res = "running" THEN "mount" ELSE "done",
                    res |-> res, during |-> call.res]]
  /\ UNCHANGED <<refs, layers, work, clock, procMounts, mountFiles>>

\* Mount in the second invocation: buildLowerDirs, os.MkdirAll(workDir), the
\* overlay mount and the bind fallback, which returns without a mount-info
\* file. A mount on a mount point that is mounted stacks on it.
PeerMountSyscall(overlayOk, bindOk) ==
  /\ call.peer.op = "Mount" /\ call.peer.pc = "mount"
  /\ Len(walkLowerDirs(refs, call.peer.ref, MaxWalk)) < MaxWalk
  /\ LET upperDir == call.peer.ref.layerID
         lower == lowerDirs(walkLowerDirs(refs, call.peer.ref, MaxWalk), upperDir)
         okO == /\ overlayOk /\ upperDir \in layers
                /\ \A k \in 1..Len(lower) : lower[k] \in layers
         okB == bindOk /\ upperDir \in layers
     IN /\ work' = work \cup {upperDir}
        /\ procMounts' =
             IF okO \/ okB
             THEN mapSet(procMounts, Abs(call.mountPoint), call.peer.name)
             ELSE procMounts
        /\ call' = IF okO
                   THEN [call EXCEPT !.peer.pc = "record"]
                   ELSE [call EXCEPT !.peer.pc = "done",
                                     !.peer.res = mountResult(okO, okB),
                                     !.peer.during = call.res]
  /\ UNCHANGED <<refs, layers, clock, mountFiles>>

\* Mount in the second invocation after its overlay mount: the mount-info
\* file and the return
PeerMountRecord ==
  /\ call.peer.op = "Mount" /\ call.peer.pc = "record"
  /\ mountFiles' = saveMountInfo(mountFiles, call.peer.name, call.mountPoint, TRUE, FALSE)
  /\ call' = [call EXCEPT !.peer.pc = "done", !.peer.res = mountResult(TRUE, FALSE),
                          !.peer.during = call.res]
  /\ UNCHANGED <<refs, layers, work, clock, procMounts>>

(* --------------------------- specifications ---------------------------- *)

\* Refs and mounts, one call at a time
Next ==
  \/ \E name \in MountNames : CreateEmptyRef(name)
  \/ \E name \in MountNames, parent \in MountNames : CreateRefFromParent(name, parent)
  \/ \E name \in MountNames : DeleteRef(name, FALSE, TRUE, TRUE)
  \/ \E name \in MountNames : DeleteRef(name, TRUE, TRUE, TRUE)
  \/ \E refName \in MountNames, mountPoint \in SameBasePoints :
       MountBegin(refName, mountPoint)
  \/ buildLowerDirs
  \/ \E overlayOk \in BOOLEAN, bindOk \in BOOLEAN : MountEnd(overlayOk, bindOk)
  \/ \E mountPoint \in SameBasePoints : UnmountBegin(mountPoint, FALSE)
  \/ \E lsofFound \in BOOLEAN, envOk \in BOOLEAN, detachEnvOk \in BOOLEAN :
       UnmountAttempt(lsofFound, envOk, detachEnvOk)
  \/ UnmountFail

Spec == Init /\ [][Next]_vars

\* The same without forced deletion
NextGuarded ==
  \/ \E name \in MountNames : CreateEmptyRef(name)
  \/ \E name \in MountNames, parent \in MountNames : CreateRefFromParent(name, parent)
  \/ \E name \in MountNames : DeleteRef(name, FALSE, TRUE, TRUE)
  \/ \E refName \in MountNames, mountPoint \in SameBasePoints :
       MountBegin(refName, mountPoint)
  \/ buildLowerDirs
  \/ \E overlayOk \in BOOLEAN, bindOk \in BOOLEAN : MountEnd(overlayOk, bindOk)
  \/ \E mountPoint \in SameBasePoints : UnmountBegin(mountPoint, FALSE)
  \/ \E lsofFound \in BOOLEAN, envOk \in BOOLEAN, detachEnvOk \in BOOLEAN :
       UnmountAttempt(lsofFound, envOk, detachEnvOk)
  \/ UnmountFail

SpecGuarded == Init /\ [][NextGuarded]_vars

\* One ref, every mount point, unmount with and without force
NextUnmount ==
  \/ \E name \in UnmountNames : CreateEmptyRef(name)
  \/ \E name \in UnmountNames, parent \in UnmountNames : CreateRefFromParent(name, parent)
  \/ \E name \in UnmountNames : DeleteRef(name, FALSE, TRUE, TRUE)
  \/ \E refName \in UnmountNames, mountPoint \in MountPoints :
       MountBegin(refName, mountPoint)
  \/ buildLowerDirs
  \/ \E overlayOk \in BOOLEAN, bindOk \in BOOLEAN : MountEnd(overlayOk, bindOk)
  \/ \E mountPoint \in MountPoints, force \in BOOLEAN : UnmountBegin(mountPoint, force)
  \/ \E lsofFound \in BOOLEAN, envOk \in BOOLEAN, detachEnvOk \in BOOLEAN :
       UnmountAttempt(lsofFound, envOk, detachEnvOk)
  \/ UnmountFail

SpecUnmount == Init /\ [][NextUnmount]_vars

\* The ref graph alone: creation and deletion with any arguments
NextGraph ==
  \/ \E name \in RefNames : CreateEmptyRef(name)
  \/ \E name \in RefNames, parent \in Parents : CreateRefFromParent(name, parent)
  \/ \E name \in ValidNames, rmLayer \in BOOLEAN, rmWork \in BOOLEAN :
       DeleteRef(name, FALSE, rmLayer, rmWork)
  \/ \E name \in ValidNames, rmLayer \in BOOLEAN, rmWork \in BOOLEAN :
       DeleteRef(name, TRUE, rmLayer, rmWork)

SpecGraph == Init /\ [][NextGraph]_vars

\* The ref graph with commit and metadata, and deletion without force only
NextGraphGuarded ==
  \/ \E name \in ValidNames : CreateEmptyRef(name)
  \/ \E name \in ValidNames, parent \in ValidNames : CreateRefFromParent(name, parent)
  \/ \E refName \in ValidNames, message \in Messages : Commit(refName, message)
  \/ \E refName \in ValidNames, key \in MetaKeys, value \in MetaValues :
       SetMetadata(refName, key, value)
  \/ \E refName \in ValidNames, key \in MetaKeys : DeleteMetadata(refName, key)
  \/ \E name \in ValidNames, rmLayer \in BOOLEAN, rmWork \in BOOLEAN :
       DeleteRef(name, FALSE, rmLayer, rmWork)

SpecGraphGuarded == Init /\ [][NextGraphGuarded]_vars

\* Chains of three refs on one mount point, with forced deletion
NextChain ==
  \/ \E name \in ValidNames : CreateEmptyRef(name)
  \/ \E name \in ValidNames, parent \in ValidNames : CreateRefFromParent(name, parent)
  \/ \E name \in ValidNames : DeleteRef(name, TRUE, TRUE, TRUE)
  \/ \E refName \in ValidNames, mountPoint \in ChainPoints : MountBegin(refName, mountPoint)
  \/ buildLowerDirs
  \/ \E overlayOk \in BOOLEAN, bindOk \in BOOLEAN : MountEnd(overlayOk, bindOk)
  \/ \E mountPoint \in ChainPoints : UnmountBegin(mountPoint, FALSE)
  \/ \E lsofFound \in BOOLEAN, envOk \in BOOLEAN, detachEnvOk \in BOOLEAN :
       UnmountAttempt(lsofFound, envOk, detachEnvOk)
  \/ UnmountFail

SpecChain == Init /\ [][NextChain]_vars

\* The ref graph under a wall clock that can be set back
NextClock ==
  \/ \E name \in ValidNames : CreateEmptyRef(name)
  \/ \E name \in ValidNames, parent \in ValidNames : CreateRefFromParent(name, parent)
  \/ \E name \in ValidNames, force \in BOOLEAN : DeleteRef(name, force, TRUE, TRUE)
  \/ ClockSetBack

SpecClock == Init /\ [][NextClock]_vars

\* Two refs on one mount point, deletion with every outcome of its removals
NextDelete ==
  \/ \E name \in MountNames : CreateEmptyRef(name)
  \/ \E name \in MountNames, parent \in MountNames : CreateRefFromParent(name, parent)
  \/ \E name \in MountNames, force \in BOOLEAN, rmLayer \in BOOLEAN, rmWork \in BOOLEAN :
       DeleteRef(name, force, rmLayer, rmWork)
  \/ \E refName \in MountNames, mountPoint \in ChainPoints : MountBegin(refName, mountPoint)
  \/ buildLowerDirs
  \/ \E overlayOk \in BOOLEAN, bindOk \in BOOLEAN : MountEnd(overlayOk, bindOk)
  \/ \E mountPoint \in ChainPoints : UnmountBegin(mountPoint, FALSE)
  \/ \E lsofFound \in BOOLEAN, envOk \in BOOLEAN, detachEnvOk \in BOOLEAN :
       UnmountAttempt(lsofFound, envOk, detachEnvOk)
  \/ UnmountFail

SpecDelete == Init /\ [][NextDelete]_vars

\* One ref, mounted or not, with two metadata keys
NextMeta ==
  \/ \E name \in UnmountNames : CreateEmptyRef(name)
  \/ \E name \in UnmountNames, parent \in UnmountNames : CreateRefFromParent(name, parent)
  \/ \E refName \in UnmountNames, message \in Messages : Commit(refName, message)
  \/ \E refName \in UnmountNames, key \in TwoKeys, value \in TwoValues :
       SetMetadata(refName, key, value)
  \/ \E refName \in UnmountNames, key \in TwoKeys : DeleteMetadata(refName, key)
  \/ \E name \in UnmountNames : DeleteRef(name, FALSE, TRUE, TRUE)
  \/ \E refName \in UnmountNames, mountPoint \in ChainPoints :
       MountBegin(refName, mountPoint)
  \/ buildLowerDirs
  \/ \E overlayOk \in BOOLEAN, bindOk \in BOOLEAN : MountEnd(overlayOk, bindOk)
  \/ \E mountPoint \in ChainPoints : UnmountBegin(mountPoint, FALSE)
  \/ \E lsofFound \in BOOLEAN, envOk \in BOOLEAN, detachEnvOk \in BOOLEAN :
       UnmountAttempt(lsofFound, envOk, detachEnvOk)
  \/ UnmountFail

SpecMeta == Init /\ [][NextMeta]_vars

\* A Mount with a DeleteRef of another process running between its steps
NextRace ==
  \/ \E name \in MountNames : PeerDone /\ CreateEmptyRef(name)
  \/ \E name \in MountNames, parent \in MountNames :
       PeerDone /\ CreateRefFromParent(name, parent)
  \/ \E refName \in MountNames, mountPoint \in RacePoints :
       PeerDone /\ MountBegin(refName, mountPoint)
  \/ buildLowerDirs
  \/ \E overlayOk \in BOOLEAN, bindOk \in BOOLEAN : RaceMountSyscall(overlayOk, bindOk)
  \/ RaceMountReturn
  \/ \E name \in MountNames : PeerDeleteCheck(name)
  \/ PeerDeleteRemoveRef
  \/ \E rmLayer \in BOOLEAN, rmWork \in BOOLEAN : PeerDeleteRemoveLayer(rmLayer, rmWork)
  \/ \E mountPoint \in RacePoints : PeerDone /\ UnmountBegin(mountPoint, FALSE)
  \/ \E lsofFound \in BOOLEAN, envOk \in BOOLEAN, detachEnvOk \in BOOLEAN :
       UnmountAttempt(lsofFound, envOk, detachEnvOk)
  \/ UnmountFail

SpecRace == Init /\ [][NextRace]_vars

\* A Mount with a Mount of another process on the same mount point running
\* between its steps
NextRaceMount ==
  \/ \E name \in MountNames : PeerDone /\ CreateEmptyRef(name)
  \/ \E name \in MountNames, parent \in MountNames :
       PeerDone /\ CreateRefFromParent(name, parent)
  \/ \E refName \in MountNames, mountPoint \in RacePoints :
       PeerDone /\ MountBegin(refName, mountPoint)
  \/ buildLowerDirs
  \/ \E overlayOk \in BOOLEAN, bindOk \in BOOLEAN : RaceMountSyscall(overlayOk, bindOk)
  \/ RaceMountReturn
  \/ \E refName \in MountNames : PeerMountCheck(refName)
  \/ \E overlayOk \in BOOLEAN, bindOk \in BOOLEAN : PeerMountSyscall(overlayOk, bindOk)
  \/ PeerMountRecord

SpecRaceMount == Init /\ [][NextRaceMount]_vars

(* ------------------------------- claims -------------------------------- *)

\* The refs mounted in the live mount table
MountedRefs == { procMounts[p] : p \in DOMAIN procMounts }

\* C1: as long as every deletion is unforced, no ref that is mounted at some
\* mount point has been deleted, and a DeleteRef that succeeded did not
\* delete a mounted ref.
C1_MountedRefNeverDeleted ==
  /\ \A name \in MountedRefs : hasRef(refs, name)
  /\ (call.op = "DeleteRef" /\ call.res = "ok") => call.name \notin MountedRefs

\* C2: when Mount has returned success, the mount-info file named by the
\* base name of the mount point holds {ref, mountPoint} of that call.
C2_MountInfoAfterSuccess ==
  (call.op = "Mount" /\ call.res = "ok") =>
    /\ Base(call.mountPoint) \in DOMAIN mountFiles
    /\ mountFiles[Base(call.mountPoint)] =
         [ref |-> call.name, mountPoint |-> call.mountPoint]

MountErrors == { "RefNotFound", "AlreadyMounted", "MountFailed" }

\* Whether the log holds a mount call that reported success
mountReported(log) == \E k \in 1..Len(log) : log[k].ok

\* C3: a step of Mount changes the mount-info files only when one of its
\* mount calls has reported success; a Mount that returns RefNotFound,
\* AlreadyMounted or MountFailed leaves the mount-info files as they were.
C3_MountInfoOnlyAfterMount ==
  [][ /\ (call'.op = "Mount" /\ call'.res \in MountErrors) => mountFiles' = mountFiles
      /\ (call'.op = "Mount" /\ mountFiles' # mountFiles) =>
           /\ call'.res = "ok"
           /\ mountReported(call'.log)
           /\ Abs(call'.mountPoint) \in DOMAIN procMounts' ]_vars

C3_Witness ==
  /\ call.op = "Mount" /\ call.res = "MountFailed"
  /\ Len(call.log) = 2
  /\ Base(call.mountPoint) \notin DOMAIN mountFiles

\* C4: a Mount of an existing ref on a mount point that is mounted (a Mount
\* on it succeeded and no unmount of it has succeeded since) returns
\* AlreadyMounted, makes no mount call and leaves the mount table and the
\* mount-info files unchanged.
C4_SecondMountRefused ==
  [][ ( /\ call'.op = "Mount" /\ call'.res # "running"
        /\ hasRef(refs, call'.name)
        /\ Abs(call'.mountPoint) \in DOMAIN procMounts )
      => ( /\ call'.res = "AlreadyMounted"
           /\ call'.log = << >>
           /\ procMounts' = procMounts
           /\ mountFiles' = mountFiles ) ]_vars

C4_Witness ==
  /\ call.op = "Mount" /\ call.res = "AlreadyMounted"
  /\ Abs(call.mountPoint) \in DOMAIN procMounts
  /\ procMounts[Abs(call.mountPoint)] # call.name
  /\ hasRef(refs, call.name)

\* C5: an unforced DeleteRef of an existing ref returns HasChildren exactly
\* when some other ref has it as parent, and then leaves the refs, the layer
\* directories and the mount-info files unchanged.
C5_HasChildrenExactly ==
  [][ (call'.op = "DeleteRef" /\ ~call'.force /\ hasRef(refs, call'.name)) =>
        /\ (call'.res = "HasChildren") <=>
             (\E n \in DOMAIN refs \ {call'.name} : refs[n].parent = call'.name)
        /\ (call'.res = "HasChildren") =>
             (refs' = refs /\ layers' = layers /\ mountFiles' = mountFiles) ]_vars

RECURSIVE Ancestors(_, _, _)
Ancestors(store, n, k) ==
  IF k = 0 \/ ~hasRef(store, n) \/ store[n].parent = EmptyString THEN {}
  ELSE {store[n].parent} \cup Ancestors(store, store[n].parent, k - 1)

\* C7: following parent links from a ref never returns to that ref.
C7_ParentsAcyclic ==
  \A n \in DOMAIN refs : n \notin Ancestors(refs, n, Cardinality(DOMAIN refs))

\* The layer identifiers the walk of Mount has visited: the ref's own, then
\* those appended to dirs
visitedLayers == <<call.ref.layerID>> \o call.dirs

\* C8: the parent walk of Mount visits no layer identifier twice (it stops
\* when one repeats), so it ends within as many steps as there are refs.
C8_WalkVisitsOnce ==
  (call.op = "Mount" /\ call.res = "running") =>
    \A j, k \in 1..Len(visitedLayers) :
      j # k => visitedLayers[j] # visitedLayers[k]

\* C9: CreateEmptyRef with a valid name that is in the store returns
\* AlreadyExists and leaves the refs and the layer directories unchanged.
C9_CreateExistingRefused ==
  [][ ( /\ call'.op = "CreateEmptyRef"
        /\ validateRefName(call'.name) = "ok"
        /\ hasRef(refs, call'.name) )
      => (call'.res = "AlreadyExists" /\ refs' = refs /\ layers' = layers) ]_vars

\* Whether the last unmount call of the log (plain or detached) succeeded
lastUnmountOk(log) ==
  /\ Len(log) > 0
  /\ log[Len(log)].ev \in { "unmount", "unmount.detach" }
  /\ log[Len(log)].n = 1

\* C10: a step of unmount removes a mount-info file only when its unmount
\* call (plain or detached) has just succeeded; a return of UnmountFailed or
\* NotMounted leaves every mount-info file as it was, and after a return of
\* success no mount-info file of the mount point is left.
C10_MountInfoRemovedIffUnmounted ==
  [][ call'.op = "Unmount" =>
        /\ (mountFiles' # mountFiles) => (call'.res = "ok" /\ lastUnmountOk(call'.log))
        /\ (call'.res \in { "UnmountFailed", "NotMounted" }) => mountFiles' = mountFiles
        /\ (call'.res = "ok") =>
             /\ lastUnmountOk(call'.log)
             /\ Base(call'.mountPoint) \notin DOMAIN mountFiles'
             /\ \A k \in DOMAIN mountFiles' :
                  mountFiles'[k].mountPoint # call'.mountPoint ]_vars

C10_Witness ==
  /\ call.op = "Unmount" /\ call.res = "UnmountFailed"
  /\ Abs(call.mountPoint) \in DOMAIN procMounts
  /\ Base(call.mountPoint) \in DOMAIN mountFiles
  /\ mountFiles[Base(call.mountPoint)].mountPoint = call.mountPoint

\* The indices of the plain unmount calls in the log
unmountAttempts(log) == { k \in 1..Len(log) : log[k].ev = "unmount" }

\* A running unmount can take a step of its loop or return
UnmountStep ==
  \/ \E lsofFound \in BOOLEAN, envOk \in BOOLEAN, detachEnvOk \in BOOLEAN :
       UnmountAttempt(lsofFound, envOk, detachEnvOk)
  \/ UnmountFail

\* C11: an unmount makes at most 3 plain unmount calls without force and at
\* most 5 with force; an unmount call that succeeds is the last event of
\* the call, which has then returned success; and a running unmount has made
\* as many attempts as its loop index, at most the bound, and can always
\* take its next step, so it returns after at most that many steps.
C11_RetryLoopBounded ==
  call.op = "Unmount" =>
    /\ Cardinality(unmountAttempts(call.log)) <= (IF call.force THEN 5 ELSE 3)
    /\ \A k \in 1..Len(call.log) :
         (call.log[k].ev \in { "unmount", "unmount.detach" } /\ call.log[k].n = 1)
           => (k = Len(call.log) /\ call.res = "ok")
    /\ call.res = "running" =>
         /\ Cardinality(unmountAttempts(call.log)) = call.i
         /\ call.i <= (IF call.force THEN 5 ELSE 3)
         /\ ENABLED UnmountStep

C11_Witness ==
  /\ call.op = "Unmount" /\ call.force /\ call.res = "UnmountFailed"
  /\ Cardinality(unmountAttempts(call.log)) = 5

SignalEvents == { "fuser -km", "kill -TERM", "kill -KILL" }

\* The indices of the events of the log that signal processes
signals(log) == { k \in 1..Len(log) : log[k].ev \in SignalEvents }

\* C12: an unmount without force signals no process; an unmount with force
\* signals processes only after its first unmount call has been made; and
\* every fuser/lsof round, whether lsof lists processes or not, is followed
\* by the unmount call of its iteration.
C12_SignalsOnlyByForce ==
  call.op = "Unmount" =>
    /\ ~call.force => signals(call.log) = {}
    /\ \A k \in signals(call.log) :
         \E j \in 1..(k - 1) : call.log[j].ev = "unmount"
    /\ \A k \in 1..Len(call.log) :
         call.log[k].ev = "fuser -km" =>
           LET after == IF call.log[k + 1].ev = "kill -TERM" THEN k + 4 ELSE k + 1
           IN /\ after + 1 <= Len(call.log)
              /\ call.log[after] = Event("sleep", 200)
              /\ call.log[after + 1].ev = "unmount"

C12_Witness ==
  /\ call.op = "Unmount" /\ call.force /\ call.res = "UnmountFailed"
  /\ \E k \in 1..Len(call.log) :
       call.log[k].ev = "fuser -km" /\ call.log[k + 1].ev = "sleep"
  /\ \E k \in 1..Len(call.log) : call.log[k].ev = "kill -KILL"

\* Whether every plain unmount call of the log failed
allAttemptsFailed(log) == \A k \in unmountAttempts(log) : log[k].n = 0

\* The return of an unmount without force of a mount point that is in the
\* mount table, after plain unmount calls that all failed
busyUnmountReturns ==
  /\ call'.op = "Unmount" /\ ~call'.force
  /\ call.res = "running" /\ call'.res # "running"
  /\ Abs(call'.mountPoint) \in DOMAIN procMounts
  /\ allAttemptsFailed(call'.log)

\* C13 as stated: an unmount without force of a mounted mount point whose
\* plain unmount calls all fail returns UnmountFailed after 3 attempts and
\* the mount point is still in the mount table.
C13_BusyUnmountFails ==
  [][ busyUnmountReturns =>
        /\ Cardinality(unmountAttempts(call'.log)) = 3
        /\ call'.res = "UnmountFailed"
        /\ Abs(call'.mountPoint) \in DOMAIN procMounts' ]_vars

\* C13: an unmount without force of a mounted mount point whose plain
\* unmount calls all fail makes 3 of them and signals no process; the third
\* is followed by one detach call, and the call returns UnmountFailed with
\* the mount point still in the mount table when the detach call fails too,
\* and success with the mount point out of the mount table when it succeeds.
C13_BusyUnmountDetaches ==
  [][ busyUnmountReturns =>
        LET log == call'.log
            detach == { k \in 1..Len(log) : log[k].ev = "unmount.detach" }
        IN /\ Cardinality(unmountAttempts(log)) = 3
           /\ Cardinality(detach) = 1
           /\ \A k \in detach : k > 1 /\ log[k - 1].ev = "unmount"
           /\ signals(log) = {}
           /\ \A k \in detach :
                IF log[k].n = 0
                THEN /\ call'.res = "UnmountFailed"
                     /\ Abs(call'.mountPoint) \in DOMAIN procMounts'
                ELSE /\ call'.res = "ok"
                     /\ Abs(call'.mountPoint) \notin DOMAIN procMounts' ]_vars

C13_Witness ==
  /\ call.op = "Unmount" /\ ~call.force /\ call.res = "UnmountFailed"
  /\ allAttemptsFailed(call.log)
  /\ Cardinality(unmountAttempts(call.log)) = 3
  /\ Abs(call.mountPoint) \in DOMAIN procMounts

\* C14: an unmount, with or without force, of a mount point that is not in
\* the mount table returns NotMounted at once, with no sync, unmount call or
\* signal, and leaves the mount table and the mount-info files unchanged.
C14_NotMountedRefused ==
  [][ ( /\ call'.op = "Unmount" /\ call.res # "running"
        /\ Abs(call'.mountPoint) \notin DOMAIN procMounts )
      => ( /\ call'.res = "NotMounted"
           /\ call'.log = << >>
           /\ procMounts' = procMounts
           /\ mountFiles' = mountFiles ) ]_vars

\* The layer identifiers of the ancestors of n that resolve, nearest first,
\* following at most k parent links
RECURSIVE AncestorLayers(_, _, _)
AncestorLayers(store, n, k) ==
  IF k = 0 \/ store[n].parent = EmptyString \/ ~hasRef(store, store[n].parent)
  THEN << >>
  ELSE <<store[store[n].parent].layerID>>
       \o AncestorLayers(store, store[n].parent, k - 1)

\* C15: in a store without parent cycles, the overlay mount call of Mount
\* has upper = the ref's own layer and lower = the layers of the ref's
\* ancestors from the nearest parent to the root, or, when the ref has no
\* ancestor that resolves, lower = the ref's own layer alone.
C15_LowerDirsNearestFirst ==
  ( /\ call.op = "Mount" /\ call.log # << >>
    /\ C7_ParentsAcyclic )
  => LET own == refs[call.name].layerID
         chain == AncestorLayers(refs, call.name, Cardinality(DOMAIN refs))
     IN /\ call.log[1].ev = "mount.overlay"
        /\ call.log[1].upper = own
        /\ call.log[1].lower = IF chain = << >> THEN <<own>> ELSE chain

C15_Witness ==
  /\ call.op = "Mount" /\ call.res = "ok" /\ C7_ParentsAcyclic
  /\ Len(call.log[1].lower) = 2
  /\ call.log[1].lower[1] = refs[refs[call.name].parent].layerID
  /\ call.log[1].lower[1] # call.log[1].lower[2]

\* Whether ref n of the store names a parent that is not in the store
dangling(store, n) ==
  hasRef(store, n) /\ store[n].parent # EmptyString /\ ~hasRef(store, store[n].parent)

\* Mount can make its mount calls
MountStep == \E overlayOk \in BOOLEAN, bindOk \in BOOLEAN : MountEnd(overlayOk, bindOk)

\* C16: a forced DeleteRef of a ref that other refs have as parent returns
\* success, removes the ref and leaves each of those refs as it was, its
\* parent naming the removed ref; a Mount of a ref whose parent is not in
\* the store walks no parent, goes on to its mount calls with the ref's own
\* layer as only lower directory, and succeeds when a mount call succeeds.
C16_ForcedDeleteLeavesChildren ==
  [][ /\ ( /\ call'.op = "DeleteRef" /\ call'.force /\ hasRef(refs, call'.name)
           /\ \E n \in DOMAIN refs \ {call'.name} : refs[n].parent = call'.name )
         => /\ call'.res = "ok"
            /\ ~hasRef(refs', call'.name)
            /\ \A n \in DOMAIN refs \ {call'.name} :
                 refs[n].parent = call'.name =>
                   (hasRef(refs', n) /\ refs'[n] = refs[n] /\ dangling(refs', n))
      /\ ( /\ call.op = "Mount" /\ call.res = "running"
           /\ dangling(refs, call.name) )
         => /\ call.dirs = << >>
            /\ ENABLED MountStep
            /\ call'.op = "Mount"
            /\ call'.res = (IF mountReported(call'.log) THEN "ok" ELSE "MountFailed")
            /\ call'.log[1].lower = <<refs[call.name].layerID>>
            /\ call'.log[1].upper = refs[call.name].layerID ]_vars

C16_Witness ==
  /\ call.op = "Mount" /\ call.res = "ok"
  /\ dangling(refs, call.name)
  /\ call.log[1].lower = <<refs[call.name].layerID>>

\* C17: an unforced DeleteRef of a ref of the store that no ref has as
\* parent returns RefMounted exactly when some mount-info file holds
\* ref = name, whatever the mount table holds, and then leaves the refs, the
\* layer and work directories and the mount-info files unchanged.
C17_RefMountedByRecords ==
  [][ ( /\ call'.op = "DeleteRef" /\ ~call'.force /\ hasRef(refs, call'.name)
        /\ \A n \in DOMAIN refs : refs[n].parent # call'.name )
      => /\ (call'.res = "RefMounted") <=>
              (\E k \in DOMAIN mountFiles : mountFiles[k].ref = call'.name)
         /\ (call'.res = "RefMounted") =>
              /\ refs' = refs /\ layers' = layers /\ work' = work
              /\ mountFiles' = mountFiles /\ procMounts' = procMounts ]_vars

C17_Witness ==
  /\ call.op = "DeleteRef" /\ ~call.force /\ call.res = "RefMounted"
  /\ hasRef(refs, call.name)
  /\ \A n \in DOMAIN refs : refs[n].parent # call.name
  /\ \E k \in DOMAIN mountFiles : mountFiles[k].ref = call.name

\* C18: CreateRefFromParent with a valid name and a parent that is not in
\* the store returns ParentNotFound and leaves the refs and the layer
\* directories unchanged; when it returns success the parent was in the
\* store and the store holds the new ref with that parent.
C18_ParentMustResolve ==
  [][ ( /\ call'.op = "CreateRefFromParent"
        /\ validateRefName(call'.name) = "ok" )
      => /\ ~hasRef(refs, call'.parent) =>
              /\ call'.res = "ParentNotFound"
              /\ refs' = refs /\ layers' = layers /\ clock' = clock
         /\ call'.res = "ok" =>
              /\ hasRef(refs, call'.parent)
              /\ hasRef(refs', call'.parent)
              /\ hasRef(refs', call'.name)
              /\ refs'[call'.name].parent = call'.parent ]_vars

C18_Witness ==
  /\ call.op = "CreateRefFromParent" /\ call.res = "ParentNotFound"
  /\ validateRefName(call.name) = "ok"
  /\ call.parent # EmptyString /\ ~hasRef(refs, call.parent)
  /\ refs # << >>

\* Whether a name is empty or holds one of / \ : * ? " < > |
refusedName(name) ==
  \/ name = EmptyString
  \/ \E k \in 1..Len(name) : name[k] \in { "/", "\\", ":", "*", "?", "\"", "<", ">", "|" }

\* C19: CreateEmptyRef and CreateRefFromParent with a name that is empty or
\* holds a refused character return InvalidName, whether or not the parent
\* is in the store, and leave the refs, the layer directories and the clock
\* unchanged; with any other name they do not return InvalidName.
C19_InvalidNameFirst ==
  [][ call'.op \in { "CreateEmptyRef", "CreateRefFromParent" } =>
        /\ refusedName(call'.name) =>
             /\ call'.res = "InvalidName"
             /\ refs' = refs /\ layers' = layers /\ clock' = clock
        /\ ~refusedName(call'.name) => call'.res # "InvalidName" ]_vars

C19_Witness ==
  /\ call.op = "CreateRefFromParent" /\ call.res = "InvalidName"
  /\ call.name = <<"a", "|">>
  /\ ~hasRef(refs, call.parent)
  /\ refs # << >>

\* C20: after a CreateEmptyRef that returned success the store holds the
\* ref with an empty parent, and any two refs of the store have different
\* layer identifiers.
C20_LayerIDsDistinct ==
  /\ (call.op = "CreateEmptyRef" /\ call.res = "ok") =>
       (hasRef(refs, call.name) /\ refs[call.name].parent = EmptyString)
  /\ \A n, m \in DOMAIN refs : n # m => refs[n].layerID # refs[m].layerID

\* C21: a CreateRefFromParent that returns success leaves the new ref with
\* the metadata the parent had, and the parent's metadata as it was; a
\* SetMetadata, DeleteMetadata or Commit on a ref leaves every other ref of
\* the store, its parent and its children included, unchanged.
C21_MetadataSnapshot ==
  [][ /\ (call'.op = "CreateRefFromParent" /\ call'.res = "ok") =>
           /\ refs'[call'.name].metadata = refs[call'.parent].metadata
           /\ refs'[call'.parent].metadata = refs[call'.parent].metadata
      /\ (call'.op \in { "SetMetadata", "DeleteMetadata", "Commit" }) =>
           \A n \in DOMAIN refs \ {call'.name} :
             hasRef(refs', n) /\ refs'[n] = refs[n] ]_vars

C21_Witness ==
  /\ call.op = "SetMetadata" /\ call.res = "ok"
  /\ \E n \in DOMAIN refs :
       /\ n # call.name
       /\ refs[n].parent = call.name
       /\ refs[n].metadata # refs[call.name].metadata
       /\ refs[n].metadata # << >>

\* C22: a DeleteRef that gets past its guard checks removes the ref and no
\* other; when it returns IOError the ref is gone and its layer directory
\* and every work directory are still there; when it returns success the
\* layer directory is gone, whether or not the work directory was removed;
\* and a DeleteRef stopped by a guard check removes nothing.
C22_RefRemovedBeforeLayer ==
  [][ call'.op = "DeleteRef" =>
        IF call'.res \in { "ok", "IOError" }
        THEN LET id == refs[call'.name].layerID
             IN /\ hasRef(refs, call'.name) /\ ~hasRef(refs', call'.name)
                /\ \A n \in DOMAIN refs \ {call'.name} :
                     hasRef(refs', n) /\ refs'[n] = refs[n]
                /\ call'.res = "IOError" =>
                     (id \in layers' /\ layers' = layers /\ work' = work)
                /\ call'.res = "ok" =>
                     /\ layers' = layers \ {id}
                     /\ work' \in { work, work \ {id} }
        ELSE refs' = refs /\ layers' = layers /\ work' = work ]_vars

C22_Witness ==
  /\ call.op = "DeleteRef" /\ call.res = "IOError"
  /\ ~hasRef(refs, call.name)
  /\ \E l \in layers : \A n \in DOMAIN refs : refs[n].layerID # l
  /\ \E w \in work : w \notin layers

\* C23: SetMetadata on a ref of the store returns success, after which
\* GetMetadata of the key returns the value, every other key holds what it
\* held, and the ref's parent and layer are unchanged; DeleteMetadata
\* removes its key and no other, and with a key the ref does not hold it
\* returns success and leaves the store unchanged; in both cases no other
\* ref changes, whether or not the ref is in the mount table.
C23_MetadataKeysIndependent ==
  [][ ( /\ call'.op \in { "SetMetadata", "DeleteMetadata" }
        /\ hasRef(refs, call'.name) )
      => LET old == refs[call'.name]
             new == refs'[call'.name]
             others == (DOMAIN old.metadata) \ {call'.key}
         IN /\ call'.res = "ok"
            /\ DOMAIN refs' = DOMAIN refs
            /\ \A n \in DOMAIN refs \ {call'.name} : refs'[n] = refs[n]
            /\ new.parent = old.parent /\ new.layerID = old.layerID
            /\ \A k \in others :
                 k \in DOMAIN new.metadata /\ new.metadata[k] = old.metadata[k]
            /\ call'.op = "SetMetadata" =>
                 /\ GetMetadata(refs', call'.name, call'.key) =
                      [err |-> "ok", value |-> call'.value]
                 /\ DOMAIN new.metadata = others \cup {call'.key}
            /\ call'.op = "DeleteMetadata" =>
                 /\ GetMetadata(refs', call'.name, call'.key).err = "KeyNotFound"
                 /\ DOMAIN new.metadata = others
                 /\ call'.key \notin DOMAIN old.metadata => refs' = refs
            /\ procMounts' = procMounts /\ mountFiles' = mountFiles ]_vars

C23_Witness ==
  /\ call.op = "SetMetadata" /\ call.res = "ok" /\ call.key = "k2"
  /\ \E p \in DOMAIN procMounts : procMounts[p] = call.name
  /\ DOMAIN refs[call.name].metadata = { "k1", "k2", "commit.message" }
  /\ refs[call.name].metadata["k1"] # refs[call.name].metadata["k2"]

\* The indices of the detach unmount calls in the log
detachCalls(log) == { k \in 1..Len(log) : log[k].ev = "unmount.detach" }

\* C24: an unmount makes at most one detach unmount call; the call comes
\* right after a plain unmount call that failed, which is the 3rd plain
\* call of an unmount without force and the 5th of one with force; and when
\* the detach call succeeds the unmount has returned success.
C24_DetachOnceOnLastAttempt ==
  call.op = "Unmount" =>
    /\ Cardinality(detachCalls(call.log)) <= 1
    /\ \A k \in detachCalls(call.log) :
         /\ k > 1
         /\ call.log[k - 1] = Event("unmount", 0)
         /\ k = Len(call.log)
         /\ Cardinality(unmountAttempts(call.log)) = (IF call.force THEN 5 ELSE 3)
         /\ call.log[k].n = 1 => call.res = "ok"
         /\ call.log[k].n = 0 => call.res \in { "running", "UnmountFailed" }

C24_Witness ==
  /\ call.op = "Unmount" /\ call.force /\ call.res = "ok"
  /\ \E k \in detachCalls(call.log) : call.log[k].n = 1
  /\ Abs(call.mountPoint) \notin DOMAIN procMounts

\* The events that send KILL: fuser -k sends SIGKILL unless told another signal
KillEvents == { "fuser -km", "kill -KILL" }

\* C25: in an unmount, every event that sends KILL to the processes using
\* the mount point comes after a TERM to them and a pause.
C25_TermBeforeKill ==
  call.op = "Unmount" =>
    \A k \in 1..Len(call.log) :
      call.log[k].ev \in KillEvents =>
        /\ k > 2
        /\ call.log[k - 2].ev = "kill -TERM"
        /\ call.log[k - 1].ev = "sleep"

\* The number of the plain unmount call at index k of the log, counted from 1
attemptNumber(log, k) == Cardinality({ j \in unmountAttempts(log) : j <= k })

\* The index of the plain unmount call before the one at index k, or 0
previousAttempt(log, k) ==
  IF \E j \in unmountAttempts(log) : j < k
  THEN CHOOSE j \in unmountAttempts(log) :
         j < k /\ \A h \in unmountAttempts(log) : h < k => h <= j
  ELSE 0

\* C26: no pause comes before the first unmount attempt; the n-th attempt,
\* n >= 2, comes after a pause of n x 100 ms that starts right after the
\* attempt before it and is followed at once by a sync; so the pauses grow
\* by 100 ms from one retry to the next.
C26_BackoffGrows ==
  call.op = "Unmount" =>
    \A k \in unmountAttempts(call.log) :
      LET n == attemptNumber(call.log, k)
          p == previousAttempt(call.log, k)
      IN IF n = 1
         THEN \A j \in 1..(k - 1) : call.log[j].ev # "sleep"
         ELSE /\ call.log[p + 1] = Event("sleep", n * 100)
              /\ call.log[p + 2] = Event("sync", 0)
              /\ \A j \in 1..p : call.log[j].ev = "sleep" => call.log[j].n < n * 100

C26_Witness ==
  /\ call.op = "Unmount" /\ call.res = "UnmountFailed" /\ call.force
  /\ \E k \in 1..Len(call.log) : call.log[k] = Event("sleep", 500)
  /\ \E k \in 1..Len(call.log) : call.log[k] = Event("sleep", 300)

\* C27: isMounted answers true for a path exactly when the absolute path is
\* a mount point of the mount table, and a Mount that returned
\* AlreadyMounted was given a path that is a mount point.
C27_MountedCheckExact ==
  /\ \A p \in MountPoints :
       isMounted(procMounts, p) <=> Abs(p) \in DOMAIN procMounts
  /\ (call.op = "Mount" /\ call.res = "AlreadyMounted") =>
       Abs(call.mountPoint) \in DOMAIN procMounts

\* C28: a Mount or an unmount of a mount point leaves the mount-info file
\* of every other mount point as it was, so that a ref whose mount-info
\* file names a mounted mount point keeps it while that point is mounted.
C28_RecordsDoNotInterfere ==
  [][ call'.op \in { "Mount", "Unmount" } =>
        \A k \in DOMAIN mountFiles :
          Abs(mountFiles[k].mountPoint) # Abs(call'.mountPoint) =>
            (k \in DOMAIN mountFiles' /\ mountFiles'[k] = mountFiles[k]) ]_vars

\* The mount table changes only when a Mount or an unmount returns success,
\* a Mount adding a mount point that was not mounted and an unmount removing
\* one that was
mountsAlternate ==
  /\ (call'.op = "Mount" /\ call'.res = "ok" /\ call.res = "running") =>
       /\ Abs(call'.mountPoint) \notin DOMAIN procMounts
       /\ DOMAIN procMounts' = DOMAIN procMounts \cup {Abs(call'.mountPoint)}
  /\ (call'.op = "Unmount" /\ call'.res = "ok" /\ call.res = "running") =>
       /\ Abs(call'.mountPoint) \in DOMAIN procMounts
       /\ DOMAIN procMounts' = DOMAIN procMounts \ {Abs(call'.mountPoint)}
  /\ DOMAIN procMounts' # DOMAIN procMounts =>
       (call'.op \in { "Mount", "Unmount" } /\ call'.res = "ok")

\* After an unmount that returned success, Mount does not find the mount
\* point mounted
mountableAgain ==
  (call'.op = "Unmount" /\ call'.res = "ok") =>
    ~isMounted(procMounts', call'.mountPoint)

\* C29: on each mount point the Mounts and unmounts that succeed alternate,
\* a Mount first, and after an unmount that succeeded the mount point can
\* be mounted again.
C29_MountUnmountAlternate == [][mountsAlternate /\ mountableAgain]_vars

\* The alternation alone, which holds
C29_AlternationOnly == [][mountsAlternate]_vars

\* A Mount and a DeleteRef of another process, both of the same ref, have
\* both returned success
raceBothSucceeded ==
  /\ call.op = "Mount" /\ call.res = "ok"
  /\ call.peer.op = "DeleteRef" /\ call.peer.pc = "done" /\ call.peer.res = "ok"
  /\ call.peer.name = call.name

\* C30: an unforced DeleteRef that runs while a Mount is between its steps
\* goes on to its removals only if, when it made its checks, the ref was in
\* the store, no ref had it as parent and no mount-info file named it; the
\* Mount does not read the ref again; and whenever both have returned
\* success for the same ref, the mount point is mounted with that ref, and
\* the ref and its layer directory are gone.
C30_DeleteRacesMount ==
  [][ /\ (call.peer.op = "none" /\ call'.peer.pc = "removeRef") =>
           /\ call.op = "Mount" /\ call.res = "running"
           /\ hasRef(refs, call'.peer.name)
           /\ \A n \in DOMAIN refs : refs[n].parent # call'.peer.name
           /\ \A k \in DOMAIN mountFiles : mountFiles[k].ref # call'.peer.name
      /\ (call.op = "Mount" /\ call.res = "running" /\ call'.op = "Mount") =>
           call'.ref = call.ref
      /\ raceBothSucceeded' =>
           /\ Abs(call'.mountPoint) \in DOMAIN procMounts'
           /\ procMounts'[Abs(call'.mountPoint)] = call'.name
           /\ ~hasRef(refs', call'.name)
           /\ call'.ref.layerID \notin layers' ]_vars

C30_Witness ==
  /\ raceBothSucceeded
  /\ call.peer.during = "running"
  /\ Abs(call.mountPoint) \in DOMAIN procMounts
  /\ ~hasRef(refs, call.name)
  /\ call.ref.layerID \notin layers
  /\ Base(call.mountPoint) \in DOMAIN mountFiles
  /\ mountFiles[Base(call.mountPoint)].ref = call.name

\* The mount-info file of the running call's mount point, as one Mount writes it
recordOf(refName) == [ref |-> refName, mountPoint |-> call.mountPoint]

\* The second invocation can make its mount calls
PeerMountStep ==
  \E overlayOk \in BOOLEAN, bindOk \in BOOLEAN : PeerMountSyscall(overlayOk, bindOk)

\* The running Mount can make its mount calls
RaceMountStep ==
  \E overlayOk \in BOOLEAN, bindOk \in BOOLEAN : RaceMountSyscall(overlayOk, bindOk)

\* Both Mounts are past their isMounted check and neither has made its
\* mount calls, their walks over the parents being finite
raceBothPassed ==
  /\ call.op = "Mount" /\ call.res = "running" /\ call.log = << >>
  /\ ~buildLowerDirsContinues(refs, call.current)
  /\ call.peer.op = "Mount" /\ call.peer.pc = "mount"
  /\ Len(walkLowerDirs(refs, call.peer.ref, MaxWalk)) < MaxWalk

\* C31: a Mount of a second process on the mount point of a running Mount
\* gets past its isMounted check only while the point is not mounted, and
\* then makes its mount calls without checking again, as the running Mount
\* does, whichever of the two mounts first; each Mount whose overlay mount
\* succeeded writes the one mount-info file of the mount point, over what
\* the other wrote, so the file names the ref of the Mount that wrote last.
C31_MountsRaceOnPoint ==
  [][ /\ (call.peer.op = "none" /\ call'.peer.op = "Mount" /\ call'.peer.pc = "mount") =>
           /\ call.op = "Mount" /\ call.res = "running"
           /\ hasRef(refs, call'.peer.name)
           /\ Abs(call.mountPoint) \notin DOMAIN procMounts
      /\ raceBothPassed => (ENABLED PeerMountStep /\ ENABLED RaceMountStep)
      /\ (call.op = "Mount" /\ call.peer.op = "Mount" /\ call'.op = "Mount") =>
           /\ (call.res = "running" /\ call'.res = "ok" /\ call.log[1].ok) =>
                /\ mountFiles' = mapSet(mountFiles, Base(call.mountPoint), recordOf(call.name))
           /\ (call.peer.pc = "record" /\ call'.peer.pc = "done") =>
                /\ call'.peer.res = "ok"
                /\ mountFiles' = mapSet(mountFiles, Base(call.mountPoint),
                                        recordOf(call.peer.name)) ]_vars

C31_Witness ==
  /\ call.op = "Mount" /\ call.res = "ok" /\ call.log[1].ok
  /\ call.peer.op = "Mount" /\ call.peer.pc = "done" /\ call.peer.res = "ok"
  /\ call.peer.during = "ok"
  /\ call.peer.name # call.name
  /\ mountFiles[Base(call.mountPoint)] = recordOf(call.peer.name)
  /\ \A k \in DOMAIN mountFiles : mountFiles[k].ref # call.name

====
